---- MODULE Spec2Model ----
(***************************************************************************)
(* Model of main.py: the most-played listing fetcher                       *)
(* (retrieve_most_played_beatmaps), the single-item downloader             *)
(* (download_single_beatmap) and the batch downloader (download_beatmaps). *)
(* SpecFetch, SpecDownload and SpecSanitize run one function each from the *)
(* arguments it can be given; SpecMain runs main from the fetch on.        *)
(*                                                                         *)
(* Python strings and file contents are sequences of one-character         *)
(* strings.  A Python value is a record [t, n, s]: t is "absent" (the key  *)
(* is not in the dict), "none", "int" (value n) or "str" (value s).        *)
(***************************************************************************)
EXTENDS Integers, Sequences, FiniteSets, TLC

VARIABLES
    pc,               \* position of the program
    limit,            \* retrieve_most_played_beatmaps: argument limit
    offset,           \* retrieve_most_played_beatmaps: argument offset
    current_offset,   \* retrieve_most_played_beatmaps: loop variable
    beatmaps,         \* the accumulated / returned / processed record list
    reqs,             \* listing requests issued so far, with their responses
    options,          \* download options (dict of four booleans)
    i,                \* download_beatmaps: 1-based index of the next record
    failed_downloads, \* download_beatmaps: the failure list
    fs,               \* the working directory: file name -> content
    fs0,              \* the working directory when the run started
    opened,           \* file names opened for writing, in order
    calls,            \* calls of download_single_beatmap, in order
    raised,           \* an exception left download_single_beatmap
    max_page,         \* the longest page the listing endpoint serves in this run
    san_name,         \* sanitize_filename: the string first passed in
    results           \* sanitize_filename: the results of the successive calls

vars == <<pc, limit, offset, current_offset, beatmaps, reqs, options, i,
          failed_downloads, fs, fs0, opened, calls, raised, max_page,
          san_name, results>>

fetchVars == <<limit, offset, current_offset, reqs, max_page>>
sanVars == <<san_name, results>>
dlVars == <<options, i, failed_downloads, fs, fs0, opened, calls, raised>>

(***************************************************************************)
(* Bounds of the model.                                                    *)
(***************************************************************************)
MaxLimit == 21      \* largest limit argument tried
MaxOffsetSteps == 1 \* offsets tried: 0, 5, ..., 5 * MaxOffsetSteps
MaxRecords == 2     \* longest record list handed to download_beatmaps

(***************************************************************************)
(* Python values.                                                          *)
(***************************************************************************)
PyAbsent == [t |-> "absent", n |-> 0, s |-> <<>>]
PyNone == [t |-> "none", n |-> 0, s |-> <<>>]
PyInt(k) == [t |-> "int", n |-> k, s |-> <<>>]
PyStr(str) == [t |-> "str", n |-> 0, s |-> str]

\* truth value of a Python value: None, 0 and "" are falsy
Truthy_NotNone(v) == v.t \in {"int", "str"}
Truthy(v) ==
    \/ v.t = "int" /\ v.n # 0
    \/ v.t = "str" /\ v.s # <<>>

\* d.get(key): the value, None when the key is absent
Get(d, key) == IF d[key].t = "absent" THEN PyNone ELSE d[key]

\* d.get(key, default)
GetDefault(d, key, default) == IF d[key].t = "absent" THEN default ELSE d[key]

\* a or b
PyOr(a, b) == IF Truthy(a) THEN a ELSE b

DigitChars == <<"0", "1", "2", "3", "4", "5", "6", "7", "8", "9">>

RECURSIVE NatToStr(_)
NatToStr(k) ==
    IF k < 10 THEN <<DigitChars[k + 1]>>
    ELSE NatToStr(k \div 10) \o <<DigitChars[(k % 10) + 1]>>

\* str(v) and the f-string rendering of a value
Str(v) ==
    CASE v.t = "int" -> IF v.n < 0 THEN <<"-">> \o NatToStr(-v.n) ELSE NatToStr(v.n)
      [] v.t = "str" -> v.s
      [] OTHER -> <<"N", "o", "n", "e">>

(***************************************************************************)
(* sanitize_filename: delete the characters \ / * ? : " < > |              *)
(***************************************************************************)
InvalidChars == {"\\", "/", "*", "?", ":", "\"", "<", ">", "|"}

\* variant: only the first invalid character is deleted (count=1)
sanitize_filename_FirstOnly(name) ==
    IF \E k \in 1..Len(name) : name[k] \in InvalidChars
    THEN LET k == CHOOSE j \in 1..Len(name) :
                     /\ name[j] \in InvalidChars
                     /\ \A h \in 1..(j - 1) : name[h] \notin InvalidChars
         IN  SubSeq(name, 1, k - 1) \o SubSeq(name, k + 1, Len(name))
    ELSE name

\* variant: invalid characters are replaced by "_" instead of deleted
sanitize_filename_Underscore(name) ==
    [k \in 1..Len(name) |-> IF name[k] \in InvalidChars THEN "_" ELSE name[k]]

RECURSIVE sanitize_filename(_)
sanitize_filename(name) ==
    IF name = <<>> THEN <<>>
    ELSE IF Head(name) \in InvalidChars THEN sanitize_filename(Tail(name))
    ELSE <<Head(name)>> \o sanitize_filename(Tail(name))

(***************************************************************************)
(* Records of the listing.  A nested metadata value is a record            *)
(* [t, id, beatmapset_id, title, other]: t is "absent", "none" or "dict";  *)
(* other says that the dict has keys besides the three the program reads.  *)
(***************************************************************************)
MetaAbsent ==
    [t |-> "absent", id |-> PyAbsent, beatmapset_id |-> PyAbsent,
     title |-> PyAbsent, other |-> FALSE]
MetaNone ==
    [t |-> "none", id |-> PyAbsent, beatmapset_id |-> PyAbsent,
     title |-> PyAbsent, other |-> FALSE]
MetaDict(id, bsid, title, other) ==
    [t |-> "dict", id |-> id, beatmapset_id |-> bsid, title |-> title,
     other |-> other]

\* truth value of a nested value: None and the empty dict are falsy
MetaTruthy(m) ==
    /\ m.t = "dict"
    /\ \/ m.other
       \/ m.id.t # "absent"
       \/ m.beatmapset_id.t # "absent"
       \/ m.title.t # "absent"

Record(bs, bm) == [beatmapset |-> bs, beatmap |-> bm]

UnknownTitle == <<"U", "n", "k", "n", "o", "w", "n", " ", "T", "i", "t", "l", "e">>

DefaultOptions ==
    [nohitsound |-> FALSE, nostoryboard |-> FALSE, nobg |-> FALSE, novideo |-> TRUE]

EmptyDir == [name \in {} |-> <<>>]

(***************************************************************************)
(* The listing endpoint.  A response is [exc, status, kind, body]: exc is  *)
(* "request" when requests.get raised (no response), "json" when           *)
(* response.json() raised, "none" otherwise; kind is "list" when the       *)
(* decoded body is a list, "other" when it is another JSON value; body is  *)
(* the sequence of its elements.                                           *)
(***************************************************************************)
per_page == 10

\* the record at position k (1-based) of the page that starts at offset o
Item(o, k) ==
    Record(MetaDict(PyInt(o + k), PyAbsent, PyStr(<<"t">>), TRUE), MetaAbsent)

\* the element a non-list body (an error object) yields when iterated
ErrorKey == Record(MetaNone, MetaNone)

Page(o, n) == [k \in 1..n |-> Item(o, k)]

PageLens == {0, 2, per_page}

\* a page whose only record has a null metadata object
BarePage == <<Record(MetaNone, MetaAbsent)>>

ListingResponses(o) ==
    {[exc |-> "request", status |-> 0, kind |-> "na", body |-> <<>>]}
    \cup {[exc |-> "none", status |-> st, kind |-> "na", body |-> <<>>] :
              st \in {429, 404}}
    \cup {[exc |-> "json", status |-> 200, kind |-> "na", body |-> <<>>]}
    \cup {[exc |-> "none", status |-> 200, kind |-> "other", body |-> <<ErrorKey>>]}
    \cup {[exc |-> "none", status |-> 200, kind |-> "list", body |-> Page(o, n)] :
              n \in PageLens}
    \cup {[exc |-> "none", status |-> 200, kind |-> "list", body |-> BarePage]}

(***************************************************************************)
(* retrieve_most_played_beatmaps                                           *)
(***************************************************************************)
\* the body of one iteration: what the response adds to the result list
HandleListing_NoTypeCheck(bm, resp) ==
    IF resp.exc = "request" THEN bm
    ELSE IF resp.status = 429 THEN bm
    ELSE IF resp.status # 200 THEN bm
    ELSE IF resp.exc = "json" THEN bm
    ELSE bm \o resp.body
HandleListing_Prepend(bm, resp) ==
    IF resp.exc = "request" THEN bm
    ELSE IF resp.status = 429 THEN bm
    ELSE IF resp.status # 200 THEN bm
    ELSE IF resp.exc = "json" THEN bm
    ELSE IF resp.kind # "list" THEN bm
    ELSE resp.body \o bm
HandleListing(bm, resp) ==
    IF resp.exc = "request" THEN bm                 \* except Exception
    ELSE IF resp.status = 429 THEN bm               \* sleep(10); continue
    ELSE IF resp.status # 200 THEN bm               \* continue
    ELSE IF resp.exc = "json" THEN bm               \* except Exception
    ELSE IF resp.kind # "list" THEN bm              \* continue
    ELSE bm \o resp.body                            \* beatmaps.extend(data)

\* the for statement over range(offset, offset + limit, per_page): every way
\* out of the loop body, continue included, takes the next element
NextOffset_Retry429(cur, resp) ==
    IF resp.exc = "none" /\ resp.status = 429 THEN cur ELSE cur + per_page
NextOffset(cur, resp) == cur + per_page

InRange_Inclusive(cur) == cur <= offset + limit
InRange(cur) == cur < offset + limit

\* the seconds slept in one iteration, after its response
SleepAfter(resp) ==
    IF resp.exc = "request" THEN 0                  \* except Exception
    ELSE IF resp.status = 429 THEN 10               \* sleep(10); continue
    ELSE IF resp.status # 200 THEN 0                \* continue
    ELSE IF resp.exc = "json" THEN 0                \* except Exception
    ELSE IF resp.kind # "list" THEN 0               \* continue
    ELSE 1                                          \* sleep(1)

\* the responses the endpoint can give in this run
ServedResponses(o) == {r \in ListingResponses(o) : Len(r.body) <= max_page}

FetchPage ==
    /\ pc = "fetch"
    /\ InRange(current_offset)
    /\ \E resp \in ServedResponses(current_offset) :
          /\ reqs' = Append(reqs, [offset |-> current_offset,
                                   per_page |-> per_page, resp |-> resp,
                                   slept |-> SleepAfter(resp)])
          /\ beatmaps' = HandleListing(beatmaps, resp)
          /\ current_offset' = NextOffset(current_offset, resp)
    /\ UNCHANGED <<pc, limit, offset, max_page>>
    /\ UNCHANGED dlVars
    /\ UNCHANGED sanVars

FetchReturn ==
    /\ pc = "fetch"
    /\ ~InRange(current_offset)
    /\ pc' = "fetched"
    /\ UNCHANGED <<limit, offset, current_offset, beatmaps, reqs, max_page>>
    /\ UNCHANGED dlVars
    /\ UNCHANGED sanVars

Limits == (-1)..MaxLimit
Offsets == {5 * k : k \in 0..MaxOffsetSteps}

InitSan ==
    /\ san_name = <<>>
    /\ results = <<>>

InitDl ==
    /\ options = DefaultOptions
    /\ i = 1
    /\ failed_downloads = <<>>
    /\ fs = EmptyDir
    /\ fs0 = EmptyDir
    /\ opened = <<>>
    /\ calls = <<>>
    /\ raised = FALSE

InitFetch ==
    /\ pc = "fetch"
    /\ limit \in Limits
    /\ offset \in Offsets
    /\ current_offset = offset
    /\ beatmaps = <<>>
    /\ reqs = <<>>
    /\ max_page = per_page
    /\ InitDl
    /\ InitSan

NextFetch == FetchPage \/ FetchReturn

SpecFetch == InitFetch /\ [][NextFetch]_vars

\* every request is answered or raises: the loop takes its next step
SpecFetchFair == SpecFetch /\ WF_vars(NextFetch)

(***************************************************************************)
(* The archive endpoint and the working directory.  An archive response is *)
(* [exc, status, chunks, fail_at]: exc is "request" when requests.get      *)
(* raised (no response), "headers" when int(content-length) raised,        *)
(* "open" when open() raised, "write" when the stream or f.write raised    *)
(* after fail_at chunks were written, "none" otherwise.                    *)
(***************************************************************************)
RECURSIVE Concat(_)
Concat(seqs) == IF seqs = <<>> THEN <<>> ELSE Head(seqs) \o Concat(Tail(seqs))

ChunkLists == {<<>>, << <<"a">>, <<>>, <<"b", "c">> >>}

ArchiveResponses ==
    {[exc |-> "request", status |-> 0, chunks |-> <<>>, fail_at |-> 0]}
    \cup {[exc |-> "none", status |-> st, chunks |-> <<>>, fail_at |-> 0] :
              st \in {206, 404}}
    \cup {[exc |-> e, status |-> 200, chunks |-> <<>>, fail_at |-> 0] :
              e \in {"headers", "open"}}
    \cup {[exc |-> "none", status |-> 200, chunks |-> ch, fail_at |-> 0] :
              ch \in ChunkLists}
    \cup UNION {{[exc |-> "write", status |-> 200, chunks |-> ch, fail_at |-> k] :
                     k \in 0..(Len(ch) - 1)} : ch \in ChunkLists}

\* open(name, "w") followed by the writes: the file holds content, whatever it held
WriteFile_Append(dir, name, content) ==
    [f \in (DOMAIN dir) \cup {name} |->
        IF f = name
        THEN (IF name \in DOMAIN dir THEN dir[name] ELSE <<>>) \o content
        ELSE dir[f]]
WriteFile(dir, name, content) ==
    [f \in (DOMAIN dir) \cup {name} |-> IF f = name THEN content ELSE dir[f]]

ReportName ==
    <<"f", "a", "i", "l", "e", "d", "_", "d", "o", "w", "n", "l", "o", "a", "d", "s",
      ".", "t", "x", "t">>

BoolStr(b) == IF b THEN "true" ELSE "false"

\* the keys the loop over the option names goes through
ParamKeys == <<"noHitsound", "noStoryboard", "noBg", "noVideo">>

\* key.lower(), on the four keys
Lower_Identity(key) == key
Lower(key) ==
    CASE key = "noHitsound" -> "nohitsound"
      [] key = "noStoryboard" -> "nostoryboard"
      [] key = "noBg" -> "nobg"
      [] key = "noVideo" -> "novideo"
      [] OTHER -> key

\* options.get(param_key, False)
OptGet(opts, key) == IF key \in DOMAIN opts THEN opts[key] ELSE FALSE

\* the query parameters built from the options
BuildParams(opts) ==
    [pk \in {Lower(ParamKeys[k]) : k \in DOMAIN ParamKeys} |->
        BoolStr(OptGet(opts, pk))]

FileName(id, title) ==
    Str(id) \o <<" ", "-", " ">> \o sanitize_filename(title.s) \o <<".", "o", "s", "z">>

Outcome(ret, dir, log, caught, esc, opts) ==
    [ret |-> ret, fs |-> dir, opened |-> log, caught |-> caught, raised |-> esc,
     params |-> BuildParams(opts)]

(***************************************************************************)
(* download_single_beatmap: the result for one archive response, with the  *)
(* directory and the log of opened files it leaves.  caught names the      *)
(* place where an exception was raised and caught ("none": no exception);  *)
(* raised says that an exception left the function.                        *)
(***************************************************************************)
\* variant: any 2xx status is taken for success
download_single_beatmap_Any2xx(id, title, opts, resp, dir, log) ==
    IF resp.exc = "request" THEN Outcome(FALSE, dir, log, "request", FALSE, opts)
    ELSE IF resp.status \in 200..299 THEN
        IF resp.exc = "headers" THEN Outcome(FALSE, dir, log, "headers", FALSE, opts)
        ELSE IF title.t # "str"
            THEN Outcome(FALSE, dir, log, "sanitize", FALSE, opts)
        ELSE IF resp.exc = "open" THEN Outcome(FALSE, dir, log, "open", FALSE, opts)
        ELSE IF resp.exc = "write" THEN
            Outcome(FALSE,
                    WriteFile(dir, FileName(id, title),
                              Concat(SubSeq(resp.chunks, 1, resp.fail_at))),
                    Append(log, FileName(id, title)), "write", FALSE, opts)
        ELSE
            Outcome(TRUE,
                    WriteFile(dir, FileName(id, title), Concat(resp.chunks)),
                    Append(log, FileName(id, title)), "none", FALSE, opts)
    ELSE Outcome(FALSE, dir, log, "none", FALSE, opts)

\* variant: the except clause catches the request's exceptions only
download_single_beatmap_NarrowExcept(id, title, opts, resp, dir, log) ==
    IF resp.exc = "request" THEN Outcome(FALSE, dir, log, "request", FALSE, opts)
    ELSE IF resp.status = 200 THEN
        IF resp.exc = "headers" THEN Outcome(FALSE, dir, log, "headers", TRUE, opts)
        ELSE IF title.t # "str"
            THEN Outcome(FALSE, dir, log, "sanitize", TRUE, opts)
        ELSE IF resp.exc = "open" THEN Outcome(FALSE, dir, log, "open", TRUE, opts)
        ELSE IF resp.exc = "write" THEN
            Outcome(FALSE,
                    WriteFile(dir, FileName(id, title),
                              Concat(SubSeq(resp.chunks, 1, resp.fail_at))),
                    Append(log, FileName(id, title)), "write", TRUE, opts)
        ELSE
            Outcome(TRUE,
                    WriteFile(dir, FileName(id, title), Concat(resp.chunks)),
                    Append(log, FileName(id, title)), "none", FALSE, opts)
    ELSE Outcome(FALSE, dir, log, "none", FALSE, opts)

download_single_beatmap(id, title, opts, resp, dir, log) ==
    IF resp.exc = "request" THEN Outcome(FALSE, dir, log, "request", FALSE, opts)
    ELSE IF resp.status = 200 THEN
        IF resp.exc = "headers" THEN Outcome(FALSE, dir, log, "headers", FALSE, opts)
        ELSE IF title.t # "str"    \* re.sub raises TypeError
            THEN Outcome(FALSE, dir, log, "sanitize", FALSE, opts)
        ELSE IF resp.exc = "open" THEN Outcome(FALSE, dir, log, "open", FALSE, opts)
        ELSE IF resp.exc = "write" THEN
            Outcome(FALSE,
                    WriteFile(dir, FileName(id, title),
                              Concat(SubSeq(resp.chunks, 1, resp.fail_at))),
                    Append(log, FileName(id, title)), "write", FALSE, opts)
        ELSE
            Outcome(TRUE,
                    WriteFile(dir, FileName(id, title), Concat(resp.chunks)),
                    Append(log, FileName(id, title)), "none", FALSE, opts)
    ELSE Outcome(FALSE, dir, log, "none", FALSE, opts)

(***************************************************************************)
(* download_beatmaps                                                       *)
(***************************************************************************)
\* beatmap.get("beatmapset") or beatmap.get("beatmap")
ExtractMeta(rec) ==
    IF MetaTruthy(rec.beatmapset) THEN rec.beatmapset
    ELSE IF rec.beatmap.t = "absent" THEN MetaNone
    ELSE rec.beatmap

\* beatmapset.get("id") or beatmapset.get("beatmapset_id")
ExtractId(meta) == PyOr(Get(meta, "id"), Get(meta, "beatmapset_id"))

\* beatmapset.get("title", "Unknown Title")
ExtractTitle(meta) == GetDefault(meta, "title", PyStr(UnknownTitle))

\* the two "if not ...: append(None); continue" branches
Skipped(rec) ==
    \/ ~MetaTruthy(ExtractMeta(rec))
    \/ ~Truthy(ExtractId(ExtractMeta(rec)))

SkipRecord ==
    /\ pc = "download"
    /\ i <= Len(beatmaps)
    /\ Skipped(beatmaps[i])
    /\ failed_downloads' = Append(failed_downloads, PyNone)
    /\ i' = i + 1
    /\ UNCHANGED <<pc, beatmaps, options, fs, fs0, opened, calls, raised>>
    /\ UNCHANGED fetchVars
    /\ UNCHANGED sanVars

DownloadRecord ==
    /\ pc = "download"
    /\ i <= Len(beatmaps)
    /\ ~Skipped(beatmaps[i])
    /\ \E resp \in ArchiveResponses :
          LET meta == ExtractMeta(beatmaps[i])
              id == ExtractId(meta)
              title == ExtractTitle(meta)
              r == download_single_beatmap(id, title, options, resp, fs, opened)
          IN  /\ calls' = Append(calls, [index |-> i, id |-> id, title |-> title,
                                         params |-> r.params, resp |-> resp,
                                         caught |-> r.caught, ret |-> r.ret])
              /\ fs' = r.fs
              /\ opened' = r.opened
              /\ raised' = r.raised
              /\ IF r.raised
                    THEN /\ pc' = "crashed"
                         /\ UNCHANGED <<i, failed_downloads>>
                    ELSE /\ failed_downloads' =
                                IF r.ret THEN failed_downloads
                                ELSE Append(failed_downloads, id)
                         /\ i' = i + 1
                         /\ UNCHANGED pc
    /\ UNCHANGED <<beatmaps, options, fs0>>
    /\ UNCHANGED fetchVars
    /\ UNCHANGED sanVars

\* if failed_downloads:
ShouldWriteReport_Always(failed) == TRUE
ShouldWriteReport(failed) == failed # <<>>

\* the lines written to the report: str(fail) + "\n" for every truthy entry
RECURSIVE ReportContent_Unfiltered(_)
ReportContent_Unfiltered(failed) ==
    IF failed = <<>> THEN <<>>
    ELSE Str(Head(failed)) \o <<"\n">> \o ReportContent_Unfiltered(Tail(failed))
RECURSIVE ReportContent(_)
ReportContent(failed) ==
    IF failed = <<>> THEN <<>>
    ELSE (IF Truthy(Head(failed)) THEN Str(Head(failed)) \o <<"\n">> ELSE <<>>)
         \o ReportContent(Tail(failed))

FinishDownload ==
    /\ pc = "download"
    /\ i > Len(beatmaps)
    /\ pc' = "done"
    /\ IF ShouldWriteReport(failed_downloads)
          THEN /\ fs' = WriteFile(fs, ReportName, ReportContent(failed_downloads))
               /\ opened' = Append(opened, ReportName)
          ELSE UNCHANGED <<fs, opened>>
    /\ UNCHANGED <<beatmaps, options, i, failed_downloads, fs0, calls, raised>>
    /\ UNCHANGED fetchVars
    /\ UNCHANGED sanVars

\* record shapes handed to download_beatmaps
RecordSamples ==
    { Record(MetaDict(PyInt(5), PyAbsent, PyStr(<<"a", "/", "b">>), TRUE), MetaAbsent),
      Record(MetaAbsent, MetaDict(PyAbsent, PyStr(<<"7">>), PyAbsent, FALSE)),
      Record(MetaAbsent, MetaAbsent),
      Record(MetaDict(PyAbsent, PyAbsent, PyAbsent, FALSE), MetaNone),
      Record(MetaDict(PyInt(0), PyAbsent, PyStr(<<"x">>), TRUE), MetaAbsent),
      Record(MetaDict(PyInt(5), PyAbsent, PyStr(<<>>), TRUE), MetaAbsent),
      Record(MetaDict(PyStr(<<>>), PyInt(12), PyNone, TRUE), MetaAbsent) }

SeqsUpTo(S, n) == UNION {[1..k -> S] : k \in 0..n}

OldDir ==
    WriteFile(WriteFile(EmptyDir, ReportName, <<"9", "\n">>),
              <<"5", " ", "-", " ", "a", "b", ".", "o", "s", "z">>, <<"z">>)

InitialDirs == {EmptyDir, OldDir}

InitDownload ==
    /\ pc = "download"
    /\ limit = 0
    /\ offset = 0
    /\ current_offset = 0
    /\ reqs = <<>>
    /\ beatmaps \in SeqsUpTo(RecordSamples, MaxRecords)
    /\ options = DefaultOptions
    /\ i = 1
    /\ failed_downloads = <<>>
    /\ fs \in InitialDirs
    /\ fs0 = fs
    /\ opened = <<>>
    /\ calls = <<>>
    /\ raised = FALSE
    /\ max_page = per_page
    /\ InitSan

NextDownload == SkipRecord \/ DownloadRecord \/ FinishDownload

SpecDownload == InitDownload /\ [][NextDownload]_vars

(***************************************************************************)
(* main, from the call of retrieve_most_played_beatmaps on: the limit, the *)
(* offset and the four options are what the prompts returned.              *)
(***************************************************************************)
MainMaxLimit == 1   \* largest limit entered in main
MainMaxPage == 2    \* longest page the listing endpoint serves to main

\* if not beatmaps: return
ShouldDownload_Always(bm) == TRUE
ShouldDownload(bm) == bm # <<>>

MainExit ==
    /\ pc = "fetched"
    /\ ~ShouldDownload(beatmaps)
    /\ pc' = "exit"
    /\ UNCHANGED beatmaps
    /\ UNCHANGED fetchVars
    /\ UNCHANGED dlVars
    /\ UNCHANGED sanVars

MainDownload ==
    /\ pc = "fetched"
    /\ ShouldDownload(beatmaps)
    /\ pc' = "download"
    /\ i' = 1
    /\ failed_downloads' = <<>>
    /\ UNCHANGED <<beatmaps, options, fs, fs0, opened, calls, raised>>
    /\ UNCHANGED fetchVars
    /\ UNCHANGED sanVars

AllOptions == [{"nohitsound", "nostoryboard", "nobg", "novideo"} -> BOOLEAN]

InitMain ==
    /\ pc = "fetch"
    /\ limit \in (-1)..MainMaxLimit
    /\ offset = 0
    /\ current_offset = offset
    /\ beatmaps = <<>>
    /\ reqs = <<>>
    /\ max_page = MainMaxPage
    /\ options \in AllOptions
    /\ i = 1
    /\ failed_downloads = <<>>
    /\ fs \in InitialDirs
    /\ fs0 = fs
    /\ opened = <<>>
    /\ calls = <<>>
    /\ raised = FALSE
    /\ InitSan

NextMain ==
    \/ FetchPage
    \/ FetchReturn
    \/ MainExit
    \/ MainDownload
    \/ SkipRecord
    \/ DownloadRecord
    \/ FinishDownload

SpecMain == InitMain /\ [][NextMain]_vars

(***************************************************************************)
(* sanitize_filename on its own: the function is applied to a string, and  *)
(* then to its own result.                                                 *)
(***************************************************************************)
MaxNameLen == 2     \* longest string passed to sanitize_filename

NameChars == {"\\", "/", ":", "*", "?", "\"", "<", ">", "|", "a", "b", "-", "]"}

Sanitize ==
    /\ pc = "sanitize"
    /\ results = <<>>
    /\ results' = <<sanitize_filename(san_name)>>
    /\ UNCHANGED <<pc, beatmaps, san_name>>
    /\ UNCHANGED fetchVars
    /\ UNCHANGED dlVars

SanitizeAgain ==
    /\ pc = "sanitize"
    /\ Len(results) = 1
    /\ results' = Append(results, sanitize_filename(results[1]))
    /\ UNCHANGED <<pc, beatmaps, san_name>>
    /\ UNCHANGED fetchVars
    /\ UNCHANGED dlVars

InitSanitize ==
    /\ pc = "sanitize"
    /\ san_name \in SeqsUpTo(NameChars, MaxNameLen)
    /\ results = <<>>
    /\ limit = 0
    /\ offset = 0
    /\ current_offset = 0
    /\ reqs = <<>>
    /\ beatmaps = <<>>
    /\ max_page = per_page
    /\ InitDl

NextSanitize == Sanitize \/ SanitizeAgain

SpecSanitize == InitSanitize /\ [][NextSanitize]_vars

(***************************************************************************)
(* Notions the properties are stated with.                                 *)
(***************************************************************************)
\* a listing response with status 200 and a list body
GoodPage(resp) == resp.exc = "none" /\ resp.status = 200 /\ resp.kind = "list"

\* the offsets of range(offset, offset + limit, per_page)
RangeOffsets ==
    {o \in offset..(offset + limit - 1) : (o - offset) % per_page = 0}

\* the bodies of the good pages among the responses received, in request order
GoodBodies ==
    Concat([k \in 1..Len(reqs) |->
               IF GoodPage(reqs[k].resp) THEN reqs[k].resp.body ELSE <<>>])

NonEmptyValue(v) == (v.t = "int" /\ v.n # 0) \/ (v.t = "str" /\ v.s # <<>>)

NonEmptyDict(m) ==
    m.t = "dict" /\ (m.other \/ \E key \in {"id", "beatmapset_id", "title"} :
                                     m[key].t # "absent")

\* the record has a metadata object (under beatmapset, else under beatmap)
\* that holds an identifier (under id or under beatmapset_id)
Identified(rec) ==
    LET m == IF NonEmptyDict(rec.beatmapset) THEN rec.beatmapset ELSE rec.beatmap
    IN  /\ NonEmptyDict(m)
        /\ NonEmptyValue(m.id) \/ NonEmptyValue(m.beatmapset_id)

RECURSIVE IdentifiedUpTo(_)
\* the indices 1..n of the identified records, ascending
IdentifiedUpTo(n) ==
    IF n = 0 THEN <<>>
    ELSE IF Identified(beatmaps[n]) THEN Append(IdentifiedUpTo(n - 1), n)
    ELSE IdentifiedUpTo(n - 1)

CallIndices == [k \in 1..Len(calls) |-> calls[k].index]

CalledAt(j) == \E k \in 1..Len(calls) : calls[k].index = j

\* the report lines of the failed calls made for record j
FailLines(j) ==
    Concat([k \in 1..Len(calls) |->
               IF calls[k].index = j /\ ~calls[k].ret
               THEN Str(calls[k].id) \o <<"\n">> ELSE <<>>])

ExpectedReport == Concat([j \in 1..Len(beatmaps) |-> FailLines(j)])

SomeCallFailed == \E k \in 1..Len(calls) : ~calls[k].ret

SomeRecordSkipped == \E j \in 1..Len(beatmaps) : ~CalledAt(j)

ReportWrites == Cardinality({k \in 1..Len(opened) : opened[k] = ReportName})

SameReportAsAtStart ==
    /\ (ReportName \in DOMAIN fs) <=> (ReportName \in DOMAIN fs0)
    /\ ReportName \in DOMAIN fs => fs[ReportName] = fs0[ReportName]

\* the identifiers in the failure list, placeholders left out
FailedIds == SelectSeq(failed_downloads, LAMBDA v : v.t # "none")

RECURSIVE FailedCallIds(_)
FailedCallIds(n) ==
    IF n = 0 THEN <<>>
    ELSE IF calls[n].ret THEN FailedCallIds(n - 1)
    ELSE Append(FailedCallIds(n - 1), calls[n].id)

(***************************************************************************)
(* C1: whenever the listing request for an offset is answered with 429,    *)
(* the next listing request is issued, and for the same offset.            *)
(***************************************************************************)
C1_RetrySameOffsetOn429 ==
    \A k \in 1..Len(reqs) :
        reqs[k].resp.status = 429 =>
            /\ k < Len(reqs) => reqs[k + 1].offset = reqs[k].offset
            /\ k = Len(reqs) => pc = "fetch" /\ current_offset = reqs[k].offset

(***************************************************************************)
(* C2: when one offset's first request is answered 429 and every other     *)
(* request 200 with a list, the returned list holds every offset's page    *)
(* exactly once, in ascending offset order.                                *)
(***************************************************************************)
OneRateLimitOthersGood ==
    \E k \in 1..Len(reqs) :
        /\ reqs[k].resp.status = 429
        /\ \A j \in 1..(k - 1) : reqs[j].offset # reqs[k].offset
        /\ \A j \in 1..Len(reqs) : j # k => GoodPage(reqs[j].resp)

C2_NoOffsetLostAfter429 ==
    (pc = "fetched" /\ OneRateLimitOthersGood) =>
        /\ \A o \in RangeOffsets :
               Cardinality({k \in 1..Len(reqs) :
                               reqs[k].offset = o /\ GoodPage(reqs[k].resp)}) = 1
        /\ \A j, k \in 1..Len(reqs) :
               (j < k /\ GoodPage(reqs[j].resp) /\ GoodPage(reqs[k].resp))
                   => reqs[j].offset < reqs[k].offset
        /\ beatmaps = GoodBodies

(***************************************************************************)
(* C3: a call of download_single_beatmap returns success only when the     *)
(* status is 200; with any other status it returns failure and leaves the  *)
(* directory as it was (no file created or written).                       *)
(***************************************************************************)
C3_SuccessOnlyOn200 ==
    [][Len(calls') = Len(calls) + 1 =>
          LET c == calls'[Len(calls')]
          IN  /\ c.ret => c.resp.status = 200
              /\ c.resp.status # 200 => ~c.ret /\ fs' = fs /\ opened' = opened]_vars

W_C3 ==
    /\ \E k \in 1..Len(calls) : calls[k].resp.status = 404 /\ ~calls[k].ret
    /\ \E k \in 1..Len(calls) : calls[k].resp.status = 200 /\ calls[k].ret
    /\ opened # <<>>

(***************************************************************************)
(* C4: after download_beatmaps ends with at least one failed download, the *)
(* report file holds exactly one line per failed call, the identifier, in  *)
(* record order, whatever it held before.                                  *)
(***************************************************************************)
C4_ReportHoldsFailedIds ==
    (pc = "done" /\ SomeCallFailed) =>
        /\ ReportName \in DOMAIN fs
        /\ fs[ReportName] = ExpectedReport

W_C4 ==
    /\ pc = "done"
    /\ SomeCallFailed
    /\ SomeRecordSkipped
    /\ ReportName \in DOMAIN fs0
    /\ fs0[ReportName] # fs[ReportName]

(***************************************************************************)
(* C5: download_single_beatmap is called exactly once for each identified  *)
(* record, in list order, whatever happened to the earlier records, and    *)
(* the run reaches the end of the list.                                    *)
(***************************************************************************)
C5_EachIdentifiedRecordOnce ==
    /\ pc \in {"download", "done"} => CallIndices = IdentifiedUpTo(i - 1)
    /\ pc = "done" => i = Len(beatmaps) + 1
    /\ pc # "crashed"

W_C5 ==
    /\ pc = "done"
    /\ Len(calls) = 1
    /\ Len(beatmaps) = 2
    /\ ~Identified(beatmaps[1])
    /\ ~calls[1].ret

(***************************************************************************)
(* C6: the list returned is the concatenation, in ascending offset order,  *)
(* of the bodies of the responses with status 200 and a list body; every   *)
(* offset of the range is requested once, whatever the earlier answers.    *)
(***************************************************************************)
C6_ConcatOfGoodPages ==
    /\ beatmaps = GoodBodies
    /\ \A k \in 1..Len(reqs) : reqs[k].offset = offset + per_page * (k - 1)
    /\ pc = "fetched" => {reqs[k].offset : k \in 1..Len(reqs)} = RangeOffsets

W_C6 ==
    /\ pc = "fetched"
    /\ Len(reqs) = 3
    /\ reqs[1].resp.status = 404
    /\ reqs[2].resp.kind = "other"
    /\ GoodPage(reqs[3].resp)
    /\ beatmaps # <<>>

(***************************************************************************)
(* C7: for a positive limit, when no page holds more than 10 items, the    *)
(* returned list has at most limit items.                                  *)
(***************************************************************************)
C7_AtMostLimitItems ==
    (/\ pc = "fetched"
     /\ limit > 0
     /\ \A k \in 1..Len(reqs) : Len(reqs[k].resp.body) <= 10)
        => Len(beatmaps) <= limit

(***************************************************************************)
(* C8: every record processed is either downloaded with a non-empty        *)
(* identifier and a non-empty title, or skipped with no request and a null *)
(* placeholder in the failure list.                                        *)
(***************************************************************************)
C8_NonEmptyIdAndTitleOrSkipped ==
    /\ \A k \in 1..Len(calls) :
           /\ NonEmptyValue(calls[k].id)
           /\ calls[k].title.t = "str" /\ calls[k].title.s # <<>>
    /\ pc \in {"download", "done"} =>
           Len(SelectSeq(failed_downloads, LAMBDA v : v.t = "none"))
               = Cardinality({j \in 1..(i - 1) : ~CalledAt(j)})

(***************************************************************************)
(* C9: the report file is written at most once, after the last record, and *)
(* exactly when a record failed or was skipped; otherwise it is left as it *)
(* was.                                                                    *)
(***************************************************************************)
C9_ReportWrittenOnceAtEnd ==
    /\ pc = "download" => ReportWrites = 0 /\ SameReportAsAtStart
    /\ pc = "done" =>
           /\ ReportWrites = (IF SomeCallFailed \/ SomeRecordSkipped THEN 1 ELSE 0)
           /\ ~(SomeCallFailed \/ SomeRecordSkipped) => SameReportAsAtStart

W_C9 ==
    /\ pc = "done"
    /\ Len(calls) = 2
    /\ \A k \in 1..Len(calls) : calls[k].ret
    /\ ReportName \in DOMAIN fs0
    /\ fs[ReportName] = <<"9", "\n">>

(***************************************************************************)
(* C10: no exception raised inside download_single_beatmap leaves it: the  *)
(* call returns failure, the identifier joins the failure list and the     *)
(* loop goes on with the next record.                                      *)
(***************************************************************************)
C10_ExceptionsBecomeFailures ==
    /\ ~raised
    /\ pc # "crashed"
    /\ \A k \in 1..Len(calls) :
           calls[k].caught # "none" => ~calls[k].ret /\ i > calls[k].index
    /\ pc \in {"download", "done"} => FailedIds = FailedCallIds(Len(calls))

W_C10 ==
    /\ Len(calls) = 2
    /\ calls[1].caught = "write"
    /\ calls[1].resp.fail_at = 1
    /\ calls[2].ret
    /\ Len(failed_downloads) = 1

(***************************************************************************)
(* C11: when every request is answered 200 with a full page of 10 items    *)
(* and limit is a positive multiple of 10, the returned list has exactly   *)
(* limit items, ordered by page and then by position within the page.      *)
(***************************************************************************)
AllFullPages ==
    \A k \in 1..Len(reqs) : GoodPage(reqs[k].resp) /\ Len(reqs[k].resp.body) = 10

C11_FullPagesGiveLimitItems ==
    (pc = "fetched" /\ limit > 0 /\ limit % 10 = 0 /\ AllFullPages) =>
        /\ Len(beatmaps) = limit
        /\ \A n \in 1..Len(beatmaps) :
               beatmaps[n] = Item(offset + 10 * ((n - 1) \div 10), ((n - 1) % 10) + 1)

W_C11 ==
    /\ pc = "fetched"
    /\ limit = 20
    /\ AllFullPages
    /\ Len(beatmaps) = 20

(***************************************************************************)
(* C13: when no response is a 429, the listing requests are exactly one    *)
(* per offset offset, offset+10, ... below offset+limit, ascending, each   *)
(* with page size 10; limit 10 and offset 0 give one request, for offset 0.*)
(***************************************************************************)
ExpectedRequests == IF limit > 0 THEN (limit + 9) \div 10 ELSE 0

No429 == \A k \in 1..Len(reqs) : reqs[k].resp.status # 429

C13_OneRequestPerOffset ==
    No429 =>
        /\ \A k \in 1..Len(reqs) :
               /\ reqs[k].offset = offset + 10 * (k - 1)
               /\ reqs[k].offset < offset + limit
               /\ reqs[k].per_page = 10
        /\ pc = "fetched" => Len(reqs) = ExpectedRequests

W_C13 ==
    /\ pc = "fetched"
    /\ limit = 10
    /\ offset = 0
    /\ No429
    /\ Len(reqs) = 1
    /\ reqs[1].offset = 0

(***************************************************************************)
(* C18: whatever the responses, the fetch terminates, having issued        *)
(* exactly ceil(limit/10) requests when limit > 0 and none otherwise, and  *)
(* no offset is requested twice.                                           *)
(***************************************************************************)
C18_TerminatesWithinRange ==
    /\ <>(pc = "fetched")
    /\ [](/\ Len(reqs) <= ExpectedRequests
          /\ pc = "fetched" => Len(reqs) = ExpectedRequests
          /\ \A j, k \in 1..Len(reqs) : j # k => reqs[j].offset # reqs[k].offset)

W_C18 ==
    /\ pc = "fetched"
    /\ limit = 21
    /\ Len(reqs) = 3
    /\ reqs[1].resp.status = 429
    /\ reqs[2].resp.exc = "request"
    /\ reqs[3].resp.status = 429

(***************************************************************************)
(* C19: a sleep happens between every two consecutive listing requests: 10 *)
(* seconds after a 429, 1 second after any other outcome.                  *)
(***************************************************************************)
C19_SleepBetweenRequests ==
    \A k \in 1..(Len(reqs) - 1) :
        reqs[k].slept = (IF reqs[k].resp.status = 429 THEN 10 ELSE 1)

(***************************************************************************)
(* C12: when the archive endpoint answers 200 and no exception occurs, the *)
(* call returns success and the file "{id} - {sanitized title}.osz" holds  *)
(* exactly the chunks of the body in arrival order, whatever it held       *)
(* before; no other file changes.                                          *)
(***************************************************************************)
NineChars == {"\\", "/", ":", "*", "?", "\"", "<", ">", "|"}

WithoutNineChars(str) == SelectSeq(str, LAMBDA ch : ch \notin NineChars)

ExpectedFileName(c) ==
    Str(c.id) \o <<" ", "-", " ">> \o WithoutNineChars(c.title.s)
        \o <<".", "o", "s", "z">>

C12_FileHoldsBody ==
    [][Len(calls') = Len(calls) + 1 =>
          LET c == calls'[Len(calls')]
          IN  (c.resp.status = 200 /\ c.resp.exc = "none" /\ c.title.t = "str") =>
                  /\ c.ret
                  /\ DOMAIN fs' = (DOMAIN fs) \cup {ExpectedFileName(c)}
                  /\ fs'[ExpectedFileName(c)] = Concat(c.resp.chunks)
                  /\ \A f \in DOMAIN fs : f # ExpectedFileName(c) => fs'[f] = fs[f]]_vars

W_C12 ==
    /\ fs0 = OldDir
    /\ Len(calls) = 1
    /\ calls[1].ret
    /\ calls[1].title.s = <<"a", "/", "b">>
    /\ fs0[<<"5", " ", "-", " ", "a", "b", ".", "o", "s", "z">>] = <<"z">>
    /\ fs[<<"5", " ", "-", " ", "a", "b", ".", "o", "s", "z">>] = <<"a", "b", "c">>

(***************************************************************************)
(* C14: sanitize_filename returns its input with exactly the characters    *)
(* \ / : * ? " < > | deleted and the others kept in order; the result      *)
(* holds none of the nine.                                                 *)
(***************************************************************************)
C14_DeletesExactlyNineChars ==
    Len(results) >= 1 =>
        /\ results[1] = WithoutNineChars(san_name)
        /\ \A k \in 1..Len(results[1]) : results[1][k] \notin NineChars

W_C14 ==
    /\ san_name = <<":", "a">>
    /\ Len(results) = 1
    /\ results[1] = <<"a">>

(***************************************************************************)
(* C17: sanitize_filename is idempotent: applied to its own result it      *)
(* returns that result.                                                    *)
(***************************************************************************)
C17_SanitizeIdempotent == Len(results) = 2 => results[2] = results[1]

W_C17 ==
    /\ san_name = <<"/", "|">>
    /\ Len(results) = 2
    /\ results[2] = <<>>

(***************************************************************************)
(* C15: in main, when the fetch returns an empty list (limit <= 0          *)
(* included), download_beatmaps is not called and no download request or   *)
(* file write happens; when the list is not empty, download_beatmaps is    *)
(* called once, after the fetch has returned.                              *)
(***************************************************************************)
NothingDownloaded == calls = <<>> /\ opened = <<>> /\ fs = fs0

C15_DownloadOnlyForNonEmptyList ==
    /\ [](/\ pc \in {"fetch", "fetched", "exit"} => NothingDownloaded
          /\ pc = "exit" => beatmaps = <<>>
          /\ pc \in {"download", "done"} => beatmaps # <<>>
          /\ limit <= 0 => reqs = <<>> /\ pc \in {"fetch", "fetched", "exit"})
    /\ [][/\ pc = "fetched" =>
                pc' = (IF beatmaps = <<>> THEN "exit" ELSE "download")
          /\ (pc' = "download" /\ pc # "download") => pc = "fetched"
          /\ pc \in {"exit", "done"} => pc' = pc]_vars

W_C15 ==
    /\ pc = "exit"
    /\ limit = 1
    /\ Len(reqs) = 1
    /\ GoodPage(reqs[1].resp)

(***************************************************************************)
(* C16: for each of the 16 combinations of the four options set in main,   *)
(* every download request carries exactly the parameters nohitsound,       *)
(* nostoryboard, nobg and novideo, each "true" when its own option is set  *)
(* and "false" otherwise.                                                  *)
(***************************************************************************)
TrueFalse(b) == IF b THEN "true" ELSE "false"

C16_ParamsMirrorOptions ==
    \A k \in 1..Len(calls) :
        calls[k].params =
            [nohitsound |-> TrueFalse(options.nohitsound),
             nostoryboard |-> TrueFalse(options.nostoryboard),
             nobg |-> TrueFalse(options.nobg),
             novideo |-> TrueFalse(options.novideo)]

W_C16 ==
    /\ calls # <<>>
    /\ options.nohitsound
    /\ ~options.nostoryboard
    /\ options.nobg
    /\ ~options.novideo

====
